---- MODULE Spec2Model ----
(***************************************************************************)
(* Sargassum detection on Sentinel-2 tiles: the detection pipeline         *)
(* (detect_sargassum.py), the two index algorithms (AFAI.py, ASI.py) and   *)
(* the band / SCL loaders (Sentinel2.py).                                  *)
(*                                                                         *)
(* Numbers.  Reflectances are floats in the code.  Here a reflectance r is *)
(* the integer r * Scale, with Scale = 8 * s2_quant, so that a digital     *)
(* level DN loads as 8 * DN and the AFAI interpolation factor 75/200 = 3/8 *)
(* divides exactly: no operation of the model rounds.  NaN is one integer  *)
(* outside the range of every score; comparisons with it are false.        *)
(*                                                                         *)
(* Arrays.  A numpy array is [kind, dtype, shape, data] with data in       *)
(* row-major order; None and raised exceptions are records as well, so     *)
(* that any two values can be compared.                                    *)
(***************************************************************************)
EXTENDS Integers, Sequences, FiniteSets, TLC

\* Pixels of the tile of a detection run (the tile is 1 x NPix).
NPix == 2
\* Largest extent of a band array handed directly to compute().
MaxDim == 2
\* Largest number of required bands left out of a band set handed to compute().
MaxMissing == 2

---------------------------------------------------------------------------
\* Values

None == [kind |-> "None"]

Float(v) == [kind |-> "float", val |-> v]

IntVal(v) == [kind |-> "int", val |-> v]

Str(v) == [kind |-> "str", val |-> v]

Err(type, arg, line) == [kind |-> "error", type |-> type, arg |-> arg, line |-> line]

IsErr(x) == x.kind = "error"

Arr(dtype, shape, data) == [kind |-> "ndarray", dtype |-> dtype, shape |-> shape, data |-> data]

Size(shape) == IF shape = <<>> THEN 1 ELSE shape[1] * shape[2]

Range(f) == {f[i] : i \in DOMAIN f}

Min(S) == CHOOSE x \in S : \A y \in S : x <= y

\* np.nan
NaN == -999999

\* Sentinel2.QUANT_VAL_ASI = 2**16 - 1, the default s2_quant of load_channels
QUANT_VAL_ASI == 65535

\* Fixed-point scale of a reflectance: r is stored as r * Scale.
Scale == 8 * QUANT_VAL_ASI

---------------------------------------------------------------------------
\* numpy element-wise arithmetic with broadcasting

\* The broadcast extent of two extents; 0 when they are incompatible.
BroadcastDim(a, b) == IF a = b THEN a ELSE IF a = 1 THEN b ELSE IF b = 1 THEN a ELSE 0

BroadcastShape(s, t) == <<BroadcastDim(s[1], t[1]), BroadcastDim(s[2], t[2])>>

\* The element of A that cell k (row-major, from 1) of an array of `shape` reads.
BroadcastAt(A, shape, k) ==
  LET i  == (k - 1) \div shape[2]
      j  == (k - 1) % shape[2]
      ia == IF A.shape[1] = 1 THEN 0 ELSE i
      ja == IF A.shape[2] = 1 THEN 0 ELSE j
  IN  A.data[ia * A.shape[2] + ja + 1]

\* x <op> y for two floats; op is "+" or "-".
Apply(op, x, y) == IF op = "+" THEN x + y ELSE x - y

\* A <op> B for two arrays (or an exception already raised in an operand).
BinOp(op, A, B, line) ==
  IF IsErr(A) THEN A
  ELSE IF IsErr(B) THEN B
  ELSE LET shape == BroadcastShape(A.shape, B.shape)
       IN  IF shape[1] = 0 \/ shape[2] = 0
           THEN Err("ValueError", "operands could not be broadcast together", line)
           ELSE Arr(A.dtype, shape,
                    [k \in 1..Size(shape) |->
                       Apply(op, BroadcastAt(A, shape, k), BroadcastAt(B, shape, k))])

\* A * num / den for an array and two scalars.
ScaleOp(A, num, den) ==
  IF IsErr(A) THEN A
  ELSE Arr(A.dtype, A.shape, [k \in 1..Size(A.shape) |-> (A.data[k] * num) \div den])

\* channels_data[key]
GetItem(channels_data, key, line) ==
  IF key \in DOMAIN channels_data THEN channels_data[key] ELSE Err("KeyError", key, line)

---------------------------------------------------------------------------
\* AFAI.py

AFAI_required_channels == <<"B04", "B06", "B8A">>

AFAI_meta_channels ==
  [RED  |-> [ch |-> "B04", lambda |-> 665],
   NIR  |-> [ch |-> "B06", lambda |-> 740],
   SWIR |-> [ch |-> "B8A", lambda |-> 865]]

\* AFAI_Index(verbose): the constructor stores verbose and checks nothing; the
\* instance reads meta_channels from its class.
AFAI_Index_init(meta_channels, verbose) ==
  [kind |-> "AFAI_Index", verbose |-> verbose, meta_channels |-> meta_channels]

\* A compute() that interpolates with lambda_SWIR - lambda_NIR.
AFAI_Index_compute_WrongSpan(meta_channels, channels_data) ==
  LET RED  == GetItem(channels_data, meta_channels.RED.ch, 31)
      NIR  == GetItem(channels_data, meta_channels.NIR.ch, 32)
      SWIR == GetItem(channels_data, meta_channels.SWIR.ch, 33)
  IN  IF IsErr(RED) THEN RED
      ELSE IF IsErr(NIR) THEN NIR
      ELSE IF IsErr(SWIR) THEN SWIR
      ELSE BinOp("-", NIR,
                 BinOp("+", RED,
                       ScaleOp(BinOp("-", SWIR, RED, 39),
                               meta_channels.SWIR.lambda - meta_channels.NIR.lambda,
                               meta_channels.SWIR.lambda - meta_channels.RED.lambda), 39), 41)

\* compute() of an AFAI_Index whose class holds meta_channels
AFAI_Index_compute(meta_channels, channels_data) ==
  LET RED  == GetItem(channels_data, meta_channels.RED.ch, 31)
      NIR  == GetItem(channels_data, meta_channels.NIR.ch, 32)
      SWIR == GetItem(channels_data, meta_channels.SWIR.ch, 33)
      RED_lambda  == meta_channels.RED.lambda
      NIR_lambda  == meta_channels.NIR.lambda
      SWIR_lambda == meta_channels.SWIR.lambda
      R_NIR_prime ==
        BinOp("+", RED,
              ScaleOp(BinOp("-", SWIR, RED, 39),
                      NIR_lambda - RED_lambda, SWIR_lambda - RED_lambda), 39)
  IN  IF IsErr(RED) THEN RED
      ELSE IF IsErr(NIR) THEN NIR
      ELSE IF IsErr(SWIR) THEN SWIR
      ELSE BinOp("-", NIR, R_NIR_prime, 41)

\* AFAI_Index().compute(channels_data)
AFAI_compute(channels_data) == AFAI_Index_compute(AFAI_meta_channels, channels_data)

---------------------------------------------------------------------------
\* ASI.py

\* The required bands in alphabetical order.
ASI_required_channels_Sorted ==
  <<"B02", "B03", "B04", "B05", "B06", "B07", "B11", "B12", "B8A">>

ASI_required_channels == <<"B02", "B03", "B04", "B05", "B06", "B07", "B8A", "B11", "B12">>

\* The number of features of the network: keras.layers.Flatten(input_shape=(9,))
ModelInputs == 9

\* The weights of the stand-in scoring function, one per feature column.
ModelWeights == <<1, -1, -2, 1, 3, -1, -1, 1, -1>>

RECURSIVE Dot(_, _, _)
Dot(w, x, n) == IF n = 0 THEN 0 ELSE w[n] * x[n] + Dot(w, x, n - 1)

\* The score of one feature row: a rectified weighted sum, capped at 1.0.
\* Each row is scored on its own, and the score depends on the column order.
Score(row) ==
  LET s == Dot(ModelWeights, row, ModelInputs)
  IN  IF s < 0 THEN 0 ELSE IF s > Scale THEN Scale ELSE s

\* The constant 0.7 that the constant stand-in model returns.
ConstScore == (7 * Scale) \div 10

\* keras.models.load_model(model_path): the scoring function the file holds.
\* "ASImodelColabv2.h5" is the trained network, "const.h5" a model that
\* returns the same score for every row.
ModelFiles == {Str("ASImodelColabv2.h5"), Str("const.h5")}

keras_load_model(model_path) ==
  [kind |-> "model", fn |-> IF model_path.val = "const.h5" THEN "const" ELSE "net"]

\* The score the model gives one feature row.
ScoreOf(model, row) == IF model.fn = "const" THEN ConstScore ELSE Score(row)

\* Batches that each score the first rows of the matrix again.
RECURSIVE PredictBatches_FirstRows(_, _, _, _)
PredictBatches_FirstRows(model, data, from, bs) ==
  IF from > Len(data) THEN <<>>
  ELSE LET to == IF from + bs - 1 < Len(data) THEN from + bs - 1 ELSE Len(data)
       IN  [i \in 1..(to - from + 1) |-> ScoreOf(model, data[i])]
             \o PredictBatches_FirstRows(model, data, to + 1, bs)

\* The scores of the rows from..Len(data), computed batch after batch.
RECURSIVE PredictBatches(_, _, _, _)
PredictBatches(model, data, from, bs) ==
  IF from > Len(data) THEN <<>>
  ELSE LET to == IF from + bs - 1 < Len(data) THEN from + bs - 1 ELSE Len(data)
       IN  [i \in 1..(to - from + 1) |-> ScoreOf(model, data[from + i - 1])]
             \o PredictBatches(model, data, to + 1, bs)

\* A predict that scores every row 0 when no model is loaded.
model_predict_NoModelZeros(model, data, NCH, batch_size) ==
  IF NCH # ModelInputs
  THEN Err("ValueError", "input incompatible with the layer", 303)
  ELSE Arr("float32", <<Len(data), 1>>, [p \in 1..Len(data) |-> 0])

\* self.model.predict(data, batch_size=batch_size): one score per row, in row
\* order; batch_size None is keras' default of 32 rows.  It raises when no
\* model is loaded and when the width of the feature matrix is not the
\* network's input width.
model_predict(model, data, NCH, batch_size) ==
  IF model = None
  THEN Err("AttributeError", "'NoneType' object has no attribute 'predict'", 303)
  ELSE IF NCH # ModelInputs
  THEN Err("ValueError", "input incompatible with the layer", 303)
  ELSE Arr("float32", <<Len(data), 1>>,
           PredictBatches(model, data, 1, IF batch_size = None THEN 32 ELSE batch_size.val))

\* self.load_model(model_path)
load_model(self, model_path) ==
  [self EXCEPT !.model_path = model_path, !.model = keras_load_model(model_path)]

\* ASI_Index(model_path, verbose, batch_size)
ASI_Index_init(model_path, verbose, batch_size) ==
  LET self == [kind |-> "ASI_Index", verbose |-> verbose, model_path |-> None,
               model |-> None, batch_size |-> batch_size]
  IN  IF model_path # None THEN load_model(self, model_path) ELSE self

\* self.compute(channels_data, batch_size): the instance after the call, what
\* the call returned or raised, and the batch size handed to predict (None
\* when predict was not reached)
ASI_Index_compute(self, channels_data, batch_size) ==
  LET self1 == IF batch_size # None THEN [self EXCEPT !.batch_size = batch_size] ELSE self
      req == ASI_required_channels
      NCH == Cardinality(DOMAIN channels_data)
      first == GetItem(channels_data, req[1], 279)
      Out(r, b) == [self |-> self1, ret |-> r, batch |-> b]
  IN  IF IsErr(first) THEN Out(first, None)
      ELSE
        LET NX == first.shape[1]
            NY == first.shape[2]
            NTOT == NX * NY
            \* the columns the fill loop cannot write
            bad == {i \in 1..NCH :
                      \/ i > Len(req)
                      \/ req[i] \notin DOMAIN channels_data
                      \/ Size(channels_data[req[i]].shape) # NTOT}
        IN  IF bad # {}
            THEN LET i == Min(bad)
                 IN  IF i > Len(req)
                     THEN Out(Err("IndexError", "list index out of range", 286), None)
                     ELSE IF req[i] \notin DOMAIN channels_data
                     THEN Out(Err("KeyError", req[i], 286), None)
                     ELSE Out(Err("ValueError", "cannot reshape array", 286), None)
            ELSE
              LET data == [p \in 1..NTOT |-> [i \in 1..NCH |-> channels_data[req[i]].data[p]]]
                  result == model_predict(self1.model, data, NCH, self1.batch_size)
              IN  IF IsErr(result) THEN Out(result, self1.batch_size)
                  ELSE Out(Arr(result.dtype, <<NX, NY>>, result.data), self1.batch_size)

\* The index a detection run is given: ASI_Index(model_path="ASImodelColabv2.h5")
DetectASI == ASI_Index_init(Str("ASImodelColabv2.h5"), TRUE, IntVal(2048))

\* sarg_index.compute(channels_data) of that index
ASI_compute(channels_data) == ASI_Index_compute(DetectASI, channels_data, None).ret

required_channels(index) ==
  IF index = "AFAI" THEN AFAI_required_channels ELSE ASI_required_channels

\* sarg_index.compute(channels_data)
\* A compute() that works in place: AFAI in the NIR band, ASI in the first band.
compute_base_InPlace(index) == IF index = "AFAI" THEN "B06" ELSE "B02"

\* The band whose buffer the array returned by compute() shares: none, "NIR -
\* R_NIR_prime" and model.predict both allocate their result.
compute_base(index) == "none"

compute(index, channels_data) ==
  IF index = "AFAI" THEN AFAI_compute(channels_data) ELSE ASI_compute(channels_data)

---------------------------------------------------------------------------
\* The dataset on disk

\* Digital levels (uint16) of the pixel kinds a tile is made of, per band.
Spectra ==
  << [B02 |-> 2, B03 |-> 2, B04 |-> 1, B05 |-> 1, B06 |-> 1, B07 |-> 1, B8A |-> 2, B11 |-> 1, B12 |-> 1],
     [B02 |-> 1, B03 |-> 2, B04 |-> 1, B05 |-> 2, B06 |-> 2, B07 |-> 4, B8A |-> 1, B11 |-> 2, B12 |-> 1],
     [B02 |-> 6, B03 |-> 6, B04 |-> 5, B05 |-> 5, B06 |-> 5, B07 |-> 5, B8A |-> 1, B11 |-> 4, B12 |-> 3] >>

AllBands == {"B02", "B03", "B04", "B05", "B06", "B07", "B8A", "B11", "B12"}

\* Scene classification codes: 6 is WATER, 9 is CLOUD_HIGH_PROBABILITY.
SCLCodes == {6, 9}

TileShape == <<1, NPix>>

\* What rasterio reports for every image of the tile.
TileMeta ==
  [nodata |-> 0, width |-> TileShape[2], height |-> TileShape[1],
   crs |-> "EPSG:32616", transform |-> "Affine(20,0,300000,0,-20,2400000)"]

\* The .jp2 image of band b for a tile whose pixel k is of kind pixels[k].
BandImage(pixels, b) ==
  [meta |-> TileMeta, data |-> Arr("uint16", TileShape, [k \in 1..NPix |-> Spectra[pixels[k]][b]])]

\* A .SAFE directory: the band images present, and the SCL image or None.
SafeDir(imgdir, present, pixels, scl) ==
  [imgdir |-> imgdir,
   bands  |-> [b \in present |-> BandImage(pixels, b)],
   scl    |-> scl]

Tiles == [1..NPix -> 1..Len(Spectra)]

SCLImages == {Arr("uint8", TileShape, c) : c \in [1..NPix -> SCLCodes]}

\* Complete datasets, datasets without the SCL image, datasets lacking one
\* band image, and a dataset without the image directory of the resolution.
Disks ==
  {SafeDir(TRUE, AllBands, px, scl) : px \in Tiles, scl \in SCLImages \cup {None}}
    \cup {SafeDir(TRUE, AllBands \ {b}, [k \in 1..NPix |-> 1], Arr("uint8", TileShape, [k \in 1..NPix |-> 6])) :
            b \in AllBands}
    \cup {SafeDir(FALSE, {}, [k \in 1..NPix |-> 1], None)}

---------------------------------------------------------------------------
\* Sentinel2.py

locate_data_path(disk) == IF disk.imgdir THEN [kind |-> "path"] ELSE None

\* The bands of `channels` that have no image in the directory.
MissingChannels(disk, channels) ==
  {i \in 1..Len(channels) : channels[i] \notin DOMAIN disk.bands}

\* data = img.read(1).astype("float32"); data /= float(s2_quant)
ToReflectance(img, s2_quant) ==
  Arr("float32", img.data.shape,
      [k \in 1..Size(img.data.shape) |-> (img.data.data[k] * Scale) \div s2_quant])

\* load_channels that skips a channel without image ("continue" for "return None").
load_channels_SkipMissing(disk, channels, s2_quant) ==
  IF locate_data_path(disk) = None THEN None
  ELSE LET found == {i \in 1..Len(channels) : channels[i] \in DOMAIN disk.bands}
       IN  IF found = {} THEN None
           ELSE LET img == disk.bands[channels[Min(found)]]
                IN  [kind |-> "dataset",
                     meta |-> [dtype |-> "float32", nodata |-> img.meta.nodata,
                               width |-> img.meta.width, height |-> img.meta.height,
                               crs |-> img.meta.crs, transform |-> img.meta.transform],
                     channels |-> [b \in {channels[i] : i \in found} |->
                                     ToReflectance(disk.bands[b], s2_quant)]]

load_channels(disk, channels, s2_quant) ==
  IF locate_data_path(disk) = None THEN None
  ELSE IF MissingChannels(disk, channels) # {} THEN None
  ELSE LET img == disk.bands[channels[1]]
       IN  [kind |-> "dataset",
            meta |-> [dtype |-> "float32", nodata |-> img.meta.nodata,
                      width |-> img.meta.width, height |-> img.meta.height,
                      crs |-> img.meta.crs, transform |-> img.meta.transform],
            channels |-> [b \in {channels[i] : i \in 1..Len(channels)} |->
                            ToReflectance(disk.bands[b], s2_quant)]]

load_SCL(disk) ==
  IF locate_data_path(disk) = None THEN None
  ELSE disk.scl

---------------------------------------------------------------------------
\* detect_sargassum.py: the array steps

\* x >= t on floats: false when either side is not a number
GE(x, t) == x # NaN /\ t # NaN /\ x >= t

\* np.isin(SCL, mask_keep_categs); of None it is the 0-d array False
isin(SCL, mask_keep_categs) ==
  IF SCL = None THEN Arr("bool", <<>>, <<FALSE>>)
  ELSE Arr("bool", SCL.shape, [k \in 1..Size(SCL.shape) |-> SCL.data[k] \in mask_keep_categs])

\* SetWhereNot with "result[mask] = v" for "result[~mask] = v".
SetWhereNot_Inverted(result, mask, v) ==
  IF mask.shape = <<>>
  THEN IF ~mask.data[1] THEN result
       ELSE Arr(result.dtype, result.shape, [k \in 1..Size(result.shape) |-> v])
  ELSE Arr(result.dtype, result.shape,
           [k \in 1..Size(result.shape) |-> IF mask.data[k] THEN v ELSE result.data[k]])

\* result[~mask] = v: a 0-d mask selects every cell or none
SetWhereNot(result, mask, v) ==
  IF mask.shape = <<>>
  THEN IF mask.data[1] THEN result
       ELSE Arr(result.dtype, result.shape, [k \in 1..Size(result.shape) |-> v])
  ELSE IF mask.shape # result.shape
  THEN Err("IndexError", "boolean index did not match indexed array", 155)
  ELSE Arr(result.dtype, result.shape,
           [k \in 1..Size(result.shape) |-> IF mask.data[k] THEN result.data[k] ELSE v])

\* ApplyThreshold with "result > threshold" for "result >= threshold".
ApplyThreshold_Strict(result, threshold) ==
  IF threshold = None THEN result
  ELSE Arr("uint8", result.shape,
           [k \in 1..Size(result.shape) |->
              IF result.data[k] # NaN /\ result.data[k] > threshold.val THEN 1 ELSE 0])

\* if threshold is not None: result = np.where(result >= threshold, 1, 0).astype("uint8")
ApplyThreshold(result, threshold) ==
  IF threshold = None THEN result
  ELSE Arr("uint8", result.shape,
           [k \in 1..Size(result.shape) |-> IF GE(result.data[k], threshold.val) THEN 1 ELSE 0])

\* ApplyMask writing masked_value on the thresholded path too.
ApplyMask_AlwaysMaskedValue(result, mask, apply_mask, threshold, masked_value) ==
  IF ~apply_mask THEN result
  ELSE SetWhereNot(result, mask, masked_value)

\* ApplyMask that does not test apply_mask.
ApplyMask_Unconditional(result, mask, apply_mask, threshold, masked_value) ==
  IF threshold # None THEN SetWhereNot(result, mask, 2)
  ELSE SetWhereNot(result, mask, masked_value)

\* if apply_mask: result[~SCL_mask] = 2 if threshold is not None else masked_value
ApplyMask(result, mask, apply_mask, threshold, masked_value) ==
  IF ~apply_mask THEN result
  ELSE IF threshold # None THEN SetWhereNot(result, mask, 2)
  ELSE SetWhereNot(result, mask, masked_value)

\* d[k] = v on a dict
SetKey(d, k, v) == [x \in DOMAIN d \cup {k} |-> IF x = k THEN v ELSE d[x]]

---------------------------------------------------------------------------
\* State

VARIABLES
  args,      \* the arguments of the detect_sargassum call
  disk,      \* the dataset directory the call reads
  pc,        \* the position of the call
  dataset,   \* what load_channels returned (img_meta is its "meta")
  SCL,       \* what load_SCL returned
  SCL_mask,  \* np.isin(SCL, mask_keep_categs)
  result,    \* the result array
  written,   \* the output files written so far, in order
  error,     \* the exception that ended the call, or None
  calls,     \* the collaborators called so far, in order
  call,      \* a direct call of compute(): the index and the band set
  ret,       \* what that call returned or raised
  inst,      \* an index instance, as it is now
  made,      \* that instance as its constructor left it
  ncalls,    \* the compute() calls made on the instance so far
  base,      \* the band whose buffer the result array shares, or "none"
  test,      \* a test_model call: its test set and arguments
  evaluation, \* the locals of that call: the evaluated samples, cmatrix, the metrics
  query_args, \* the query_args dict of the caller of search_products
  api,       \* the calls made on the SentinelAPI so far, in order
  fs,        \* the data directory: its tile directories, zip files and .SAFE directories
  dl,        \* a download_products call: its arguments and locals
  train,     \* a generate_training_set call: its inputs, locals and the saved array
  loaded     \* what load_ML_dataset returned for the saved array

vars == <<args, disk, pc, dataset, SCL, SCL_mask, result, written, error, calls, call, ret,
          inst, made, ncalls, base, test, evaluation, query_args, api, fs, dl, train, loaded>>

detectVars == <<args, disk, pc, dataset, SCL, SCL_mask, result, written, error, calls>>

Indexes == {"AFAI", "ASI"}

\* The calls of detect_sargassum that are explored.
Args ==
  [sarg_index : Indexes,
   apply_mask : BOOLEAN,
   mask_keep_categs : {{6}, {6, 9}},
   masked_value : {NaN, 2 * Scale},
   threshold : {None, Float(8), Float(12)},
   save_npy : BOOLEAN, save_geotiff : BOOLEAN, save_jp2 : BOOLEAN,
   verbose : BOOLEAN]

Init ==
  /\ args \in Args
  /\ disk \in Disks
  /\ pc = "load_channels"
  /\ dataset = None
  /\ SCL = None
  /\ SCL_mask = None
  /\ result = None
  /\ written = <<>>
  /\ error = None
  /\ calls = <<>>
  /\ call = None
  /\ ret = None
  /\ inst = None
  /\ made = None
  /\ ncalls = 0
  /\ base = "none"
  /\ test = None /\ evaluation = None
  /\ train = None /\ loaded = None
  /\ query_args = None /\ api = <<>> /\ fs = None /\ dl = None

\* The call ends with exception e.
Raise(e) == pc' = "failed" /\ error' = e

img_meta == dataset.meta

---------------------------------------------------------------------------
\* detect_sargassum.py: the steps of one call

\* lines 97-108: locate the data, load the required channels, take the shape
\* and the metadata of what was loaded
LoadChannels ==
  /\ pc = "load_channels"
  /\ LET d == load_channels(disk, required_channels(args.sarg_index), QUANT_VAL_ASI)
     IN  /\ dataset' = d
         /\ calls' = calls \o <<"locate_data_path", "load_channels">>
         /\ IF d = None
            THEN Raise(Err("TypeError", "'NoneType' object is not subscriptable", 104))
            ELSE pc' = "load_SCL" /\ error' = error
  /\ UNCHANGED <<args, disk, SCL, SCL_mask, result, written, call, ret, inst, made, ncalls, base, test, evaluation, query_args, api, fs, dl, train, loaded>>

\* lines 113-126: load the SCL, derive the mask, report the mask counts
LoadSCL ==
  /\ pc = "load_SCL"
  /\ LET scl == load_SCL(disk)
     IN  /\ SCL' = scl
         /\ SCL_mask' = isin(scl, args.mask_keep_categs)
         /\ calls' = Append(calls, "load_SCL")
         /\ IF args.verbose /\ scl = None
            THEN Raise(Err("AttributeError", "'NoneType' object has no attribute 'size'", 126))
            ELSE pc' = "compute" /\ error' = error
  /\ UNCHANGED <<args, disk, dataset, result, written, call, ret, inst, made, ncalls, base, test, evaluation, query_args, api, fs, dl, train, loaded>>

\* line 134
Compute ==
  /\ pc = "compute"
  /\ LET r == compute(args.sarg_index, dataset.channels)
     IN  /\ calls' = Append(calls, "compute")
         /\ IF IsErr(r)
            THEN Raise(r) /\ result' = result
            ELSE pc' = "threshold" /\ result' = r /\ error' = error
  /\ base' = compute_base(args.sarg_index)
  /\ UNCHANGED <<args, disk, dataset, SCL, SCL_mask, written, call, ret, inst, made, ncalls, test, evaluation, query_args, api, fs, dl, train, loaded>>

\* Threshold with np.save moved up: the npy file is written from the
\* thresholded array, before the mask step
Threshold_SavesFirst ==
  /\ pc = "threshold"
  /\ result' = ApplyThreshold(result, args.threshold)
  /\ base' = IF args.threshold # None THEN "none" ELSE base
  /\ written' = IF args.save_npy
                THEN Append(written, [fmt |-> "npy", meta |-> None,
                                      data |-> ApplyThreshold(result, args.threshold)])
                ELSE written
  /\ pc' = "mask"
  /\ UNCHANGED <<args, disk, dataset, SCL, SCL_mask, error, calls, call, ret, inst, made,
                 ncalls, test, evaluation, query_args, api, fs, dl, train, loaded>>

\* lines 139-144: np.where(...).astype("uint8") is a new array
Threshold ==
  /\ pc = "threshold"
  /\ result' = ApplyThreshold(result, args.threshold)
  /\ base' = IF args.threshold # None THEN "none" ELSE base
  /\ pc' = "mask"
  /\ UNCHANGED <<args, disk, dataset, SCL, SCL_mask, written, error, calls, call, ret, inst, made,
                 ncalls, test, evaluation, query_args, api, fs, dl, train, loaded>>

\* lines 149-157: the assignment writes into the buffer of result, and so into
\* the band that shares it
Mask ==
  /\ pc = "mask"
  /\ LET r == ApplyMask(result, SCL_mask, args.apply_mask, args.threshold, args.masked_value)
     IN  IF IsErr(r)
         THEN Raise(r) /\ result' = result /\ dataset' = dataset
         ELSE /\ pc' = "save_npy" /\ result' = r /\ error' = error
              /\ dataset' = IF base = "none" THEN dataset
                            ELSE [dataset EXCEPT !.channels[base] = r]
  /\ UNCHANGED <<args, disk, SCL, SCL_mask, written, calls, call, ret, inst, made, ncalls,
                 base, test, evaluation, query_args, api, fs, dl, train, loaded>>

\* lines 162-174: np.save writes the file or fails
SaveNpy ==
  /\ pc = "save_npy"
  /\ IF args.save_npy
     THEN \E ok \in BOOLEAN :
            IF ok
            THEN /\ written' = Append(written, [fmt |-> "npy", meta |-> None, data |-> result])
                 /\ pc' = "save_geotiff" /\ error' = error
            ELSE /\ Raise(Err("OSError", "np.save", 171))
                 /\ written' = written
     ELSE pc' = "save_geotiff" /\ UNCHANGED <<written, error>>
  /\ UNCHANGED <<args, disk, dataset, SCL, SCL_mask, result, calls, call, ret, inst, made, ncalls, base, test, evaluation, query_args, api, fs, dl, train, loaded>>

\* rasterio.open(out_path, "w", **img_meta): a dataset opened for writing needs
\* a driver, a width, a height, a band count and a dtype among its keywords
rasterio_open_w(meta, line) ==
  IF "count" \notin DOMAIN meta
  THEN Err("TypeError", "Integer band count is required.", line)
  ELSE None

\* lines 179-197: the metadata is updated in place, then rasterio writes the
\* file or fails
SaveGeotiff ==
  /\ pc = "save_geotiff"
  /\ IF args.save_geotiff
     THEN LET meta == SetKey(SetKey(SetKey(img_meta, "driver", "GTiff"),
                                    "dtype", result.dtype), "count", 1)
          IN  /\ dataset' = [dataset EXCEPT !.meta = meta]
              /\ IF IsErr(rasterio_open_w(meta, 193))
                 THEN Raise(rasterio_open_w(meta, 193)) /\ written' = written
                 ELSE \E ok \in BOOLEAN :
                   IF ok
                   THEN /\ written' = Append(written, [fmt |-> "tif", meta |-> meta, data |-> result])
                        /\ pc' = "save_jp2" /\ error' = error
                   ELSE /\ Raise(Err("RasterioIOError", "rasterio.open", 193))
                        /\ written' = written
     ELSE pc' = "save_jp2" /\ UNCHANGED <<dataset, written, error>>
  /\ UNCHANGED <<args, disk, SCL, SCL_mask, result, calls, call, ret, inst, made, ncalls, base, test, evaluation, query_args, api, fs, dl, train, loaded>>

\* lines 202-227: a float image is not saved as JPEG2000; then the result is
\* returned
SaveJp2 ==
  /\ pc = "save_jp2"
  /\ IF args.save_jp2 /\ result.dtype = "uint8"
     THEN LET meta == SetKey(SetKey(img_meta, "driver", "JP2OpenJPEG"), "dtype", result.dtype)
          IN  /\ dataset' = [dataset EXCEPT !.meta = meta]
              /\ IF IsErr(rasterio_open_w(meta, 219))
                 THEN Raise(rasterio_open_w(meta, 219)) /\ written' = written
                 ELSE \E ok \in BOOLEAN :
                   IF ok
                   THEN /\ written' = Append(written, [fmt |-> "jp2", meta |-> meta, data |-> result])
                        /\ pc' = "done" /\ error' = error
                   ELSE /\ Raise(Err("RasterioIOError", "rasterio.open", 219))
                        /\ written' = written
     ELSE pc' = "done" /\ UNCHANGED <<dataset, written, error>>
  /\ UNCHANGED <<args, disk, SCL, SCL_mask, result, calls, call, ret, inst, made, ncalls, base, test, evaluation, query_args, api, fs, dl, train, loaded>>

Next ==
  \/ LoadChannels
  \/ LoadSCL
  \/ Compute
  \/ Threshold
  \/ Mask
  \/ SaveNpy
  \/ SaveGeotiff
  \/ SaveJp2

Spec == Init /\ [][Next]_vars

---------------------------------------------------------------------------
\* Direct calls of compute() on arbitrary band sets

Shapes == (1..MaxDim) \X (1..MaxDim)

\* The position of band b in the order of ASI_required_channels.
BandPos(b) ==
  IF b \in Range(ASI_required_channels)
  THEN CHOOSE i \in 1..Len(ASI_required_channels) : ASI_required_channels[i] = b
  ELSE 0

\* A band array of the given shape: reflectances that differ from band to
\* band and from cell to cell.
BandArray(b, shape) ==
  Arr("float32", shape, [k \in 1..Size(shape) |-> 8 * (1 + ((BandPos(b) + 2 * k) % 4))])

\* The band sets handed to compute(): of the required bands of the index at
\* most MaxMissing are left out, at most one has a shape of its own, and
\* the band set may hold a band the index does not ask for.
BandSets(index) ==
  LET req == Range(required_channels(index))
  IN  {[b \in (req \ missing) \cup extra |->
          BandArray(b, IF b = odd[1] THEN odd[2] ELSE shape)] :
       missing \in {m \in SUBSET req : Cardinality(m) <= MaxMissing},
       extra \in {{}, {"B01"}},
       odd \in (req \cup {"none"}) \X Shapes,
       shape \in Shapes}

InitCompute ==
  /\ call \in UNION {{[index |-> ix, channels_data |-> cd] : cd \in BandSets(ix)} : ix \in Indexes}
  /\ pc = "call"
  /\ ret = None
  /\ args = None /\ disk = None /\ dataset = None /\ SCL = None /\ SCL_mask = None
  /\ result = None /\ written = <<>> /\ error = None /\ calls = <<>>
  /\ inst = None /\ made = None /\ ncalls = 0
  /\ base = "none"
  /\ test = None /\ evaluation = None
  /\ train = None /\ loaded = None
  /\ query_args = None /\ api = <<>> /\ fs = None /\ dl = None

\* AFAI_Index.compute(channels_data) returns or raises
CallAFAI ==
  /\ pc = "call" /\ call.index = "AFAI"
  /\ ret' = AFAI_compute(call.channels_data)
  /\ pc' = "returned"
  /\ UNCHANGED <<args, disk, dataset, SCL, SCL_mask, result, written, error, calls, call, inst, made, ncalls, base, test, evaluation, query_args, api, fs, dl, train, loaded>>

\* ASI_Index.compute(channels_data) returns or raises
CallASI ==
  /\ pc = "call" /\ call.index = "ASI"
  /\ ret' = ASI_compute(call.channels_data)
  /\ pc' = "returned"
  /\ UNCHANGED <<args, disk, dataset, SCL, SCL_mask, result, written, error, calls, call, inst, made, ncalls, base, test, evaluation, query_args, api, fs, dl, train, loaded>>

NextCompute == CallAFAI \/ CallASI

SpecCompute == InitCompute /\ [][NextCompute]_vars

----------------------------------------------------------------------------
\* An index instance from its construction on: the constructor, load_model
\* and compute() calls with and without a batch size.

\* The side of the largest tile, and the number of compute() calls made on one
\* instance.
TileDim == 3
MaxCalls == 2

TileShapes == (1..TileDim) \X (1..TileDim)

\* The reflectance num/den
Refl(num, den) == (num * Scale) \div den

\* A 2x2 band set with RED = [[0.1,0.2],[0.1,0.2]], NIR = [[0.3,0.3],[0.3,0.3]]
\* and SWIR = [[0.5,0.4],[0.5,0.4]]
ScenarioBands ==
  [b \in {"B04", "B06", "B8A"} |->
     Arr("float32", <<2, 2>>,
         IF b = "B04" THEN <<Refl(1, 10), Refl(2, 10), Refl(1, 10), Refl(2, 10)>>
         ELSE IF b = "B06" THEN <<Refl(3, 10), Refl(3, 10), Refl(3, 10), Refl(3, 10)>>
         ELSE <<Refl(5, 10), Refl(4, 10), Refl(5, 10), Refl(4, 10)>>)]

\* The band sets handed to the compute() of an instance: every required band
\* with one shape, the same with the keys of one band left out, and for the
\* closed-form index the 2x2 band set above.
InstanceBandSets(req) ==
  {[b \in req \ missing |-> BandArray(b, shape)] :
     missing \in {{}} \cup {{b} : b \in req}, shape \in TileShapes}
  \cup (IF req = Range(AFAI_required_channels) THEN {ScenarioBands} ELSE {})

\* The class attribute meta_channels of AFAI_Index and of a subclass that
\* lists the three wavelengths in the opposite order.
MetaChannels ==
  {AFAI_meta_channels,
   [AFAI_meta_channels EXCEPT !.RED.lambda = AFAI_meta_channels.SWIR.lambda,
                              !.SWIR.lambda = AFAI_meta_channels.RED.lambda]}

\* The batch_size arguments of ASI_Index() and of compute()
BatchSizes == {IntVal(1), IntVal(4), IntVal(TileDim * TileDim), IntVal(2048)}

InitInstance ==
  /\ pc = "new"
  /\ inst = None /\ made = None /\ ncalls = 0
  /\ base = "none"
  /\ test = None /\ evaluation = None
  /\ train = None /\ loaded = None
  /\ query_args = None /\ api = <<>> /\ fs = None /\ dl = None
  /\ call = None /\ ret = None
  /\ args = None /\ disk = None /\ dataset = None /\ SCL = None /\ SCL_mask = None
  /\ result = None /\ written = <<>> /\ error = None /\ calls = <<>>

\* ASI_Index(model_path, verbose, batch_size)
ConstructASI ==
  /\ pc = "new"
  /\ \E model_path \in ModelFiles \cup {None}, verbose \in BOOLEAN, batch_size \in BatchSizes :
       inst' = ASI_Index_init(model_path, verbose, batch_size)
  /\ made' = inst'
  /\ pc' = "constructed"
  /\ UNCHANGED <<args, disk, dataset, SCL, SCL_mask, result, written, error, calls, call, ret,
                 ncalls, base, test, evaluation, query_args, api, fs, dl, train, loaded>>

\* AFAI_Index(verbose), of the class or of a subclass with its own meta_channels
ConstructAFAI ==
  /\ pc = "new"
  /\ \E meta_channels \in MetaChannels, verbose \in BOOLEAN :
       inst' = AFAI_Index_init(meta_channels, verbose)
  /\ made' = inst'
  /\ pc' = "constructed"
  /\ UNCHANGED <<args, disk, dataset, SCL, SCL_mask, result, written, error, calls, call, ret,
                 ncalls, base, test, evaluation, query_args, api, fs, dl, train, loaded>>

\* ASI.load_model(model_path) on an instance built without a model
LoadModel ==
  /\ pc = "constructed" /\ inst.kind = "ASI_Index" /\ inst.model = None
  /\ \E model_path \in ModelFiles : inst' = load_model(inst, model_path)
  /\ UNCHANGED <<args, disk, pc, dataset, SCL, SCL_mask, result, written, error, calls, call,
                 ret, made, ncalls, base, test, evaluation, query_args, api, fs, dl, train, loaded>>

\* inst.compute(channels_data, batch_size) on an ASI_Index
ComputeASI ==
  /\ pc = "constructed" /\ inst.kind = "ASI_Index"
  /\ \E channels_data \in InstanceBandSets(Range(ASI_required_channels)),
        batch_size \in BatchSizes \cup {None} :
       LET r == ASI_Index_compute(inst, channels_data, batch_size)
       IN  /\ call' = [index |-> "ASI", channels_data |-> channels_data,
                       batch_size |-> batch_size, batch |-> r.batch]
           /\ inst' = r.self
           /\ ret' = r.ret
  /\ ncalls' = ncalls + 1
  /\ pc' = "computed"
  /\ UNCHANGED <<args, disk, dataset, SCL, SCL_mask, result, written, error, calls, made, base, test, evaluation, query_args, api, fs, dl, train, loaded>>

\* inst.compute(channels_data) on an AFAI_Index
ComputeAFAI ==
  /\ pc = "constructed" /\ inst.kind = "AFAI_Index"
  /\ \E channels_data \in InstanceBandSets(Range(AFAI_required_channels)) :
       /\ call' = [index |-> "AFAI", channels_data |-> channels_data,
                   batch_size |-> None, batch |-> None]
       /\ ret' = AFAI_Index_compute(inst.meta_channels, channels_data)
  /\ ncalls' = ncalls + 1
  /\ pc' = "computed"
  /\ UNCHANGED <<args, disk, dataset, SCL, SCL_mask, result, written, error, calls, inst, made, base, test, evaluation, query_args, api, fs, dl, train, loaded>>

\* The caller drops the result and uses the instance again.
Again ==
  /\ pc = "computed" /\ ncalls < MaxCalls
  /\ pc' = "constructed"
  /\ call' = None /\ ret' = None
  /\ UNCHANGED <<args, disk, dataset, SCL, SCL_mask, result, written, error, calls, inst, made,
                 ncalls, base, test, evaluation, query_args, api, fs, dl, train, loaded>>

NextInstance == ConstructASI \/ ConstructAFAI \/ LoadModel \/ ComputeASI \/ ComputeAFAI \/ Again

SpecInstance == InitInstance /\ [][NextInstance]_vars

---------------------------------------------------------------------------
\* Properties of the detection pipeline (under Spec)

\* The positions after the threshold step and after the mask step.
AfterMask == {"save_npy", "save_geotiff", "save_jp2", "done"}

AfterThreshold == {"mask"} \cup AfterMask

AfterCompute == {"threshold"} \cup AfterThreshold

\* The raw score array of the run: the index computed on the loaded bands.
RawScore == compute(args.sarg_index, dataset.channels)

Cells == 1..Size(result.shape)

\* The image directory or a required band image is absent from the dataset.
BandsAbsent ==
  \/ ~disk.imgdir
  \/ \E b \in Range(required_channels(args.sarg_index)) : b \notin DOMAIN disk.bands

\* The bands load but the SCL image is absent from the dataset.
SCLAbsent == ~BandsAbsent /\ disk.scl = None

\* C1: with apply_mask=True and threshold=t, once the mask step is done every
\* cell of the result is 0, 1 or 2; a cell is 2 exactly when its SCL code is
\* not in mask_keep_categs, whatever masked_value is; every other cell is 1
\* if its raw score is >= t and 0 otherwise.
C1_ThresholdedMaskedCodes ==
  (pc \in AfterMask /\ args.apply_mask /\ args.threshold # None /\ SCL # None) =>
    \A k \in Cells :
      /\ result.data[k] \in {0, 1, 2}
      /\ (result.data[k] = 2) <=> (SCL.data[k] \notin args.mask_keep_categs)
      /\ SCL.data[k] \in args.mask_keep_categs =>
           result.data[k] = IF GE(RawScore.data[k], args.threshold.val) THEN 1 ELSE 0

\* A finished thresholded and masked run, called with masked_value = NaN,
\* whose result holds a masked cell and a cell at or above the threshold.
C1_Witness ==
  /\ pc = "done" /\ args.apply_mask /\ args.threshold # None /\ SCL # None
  /\ args.masked_value = NaN
  /\ \E k \in Cells : result.data[k] = 2
  /\ \E k \in Cells : result.data[k] = 1

\* C2: with apply_mask=True and threshold=None, once the mask step is done
\* exactly the cells whose SCL code is not in mask_keep_categs hold
\* masked_value, and every other cell holds the raw score compute() returned.
C2_UnthresholdedMask ==
  (pc \in AfterMask /\ args.apply_mask /\ args.threshold = None /\ SCL # None) =>
    /\ result.shape = RawScore.shape
    /\ \A k \in Cells :
         result.data[k] = IF SCL.data[k] \in args.mask_keep_categs
                          THEN RawScore.data[k]
                          ELSE args.masked_value

\* A finished unthresholded masked run with one cell masked and one cell kept.
C2_Witness ==
  /\ pc = "done" /\ args.apply_mask /\ args.threshold = None /\ SCL # None
  /\ \E k \in Cells : SCL.data[k] \notin args.mask_keep_categs /\ result.data[k] = args.masked_value
  /\ \E k \in Cells : SCL.data[k] \in args.mask_keep_categs /\ result.data[k] # args.masked_value

\* C3: with threshold=t and apply_mask=False, once the threshold step is done
\* every cell of the result is 0 or 1, and a cell is 1 exactly when its raw
\* score is >= t (a score equal to t gives 1).
C3_ThresholdCodes ==
  (pc \in AfterThreshold /\ ~args.apply_mask /\ args.threshold # None) =>
    /\ result.shape = RawScore.shape
    /\ \A k \in Cells :
         /\ result.data[k] \in {0, 1}
         /\ (result.data[k] = 1) <=> GE(RawScore.data[k], args.threshold.val)

\* A finished thresholded unmasked run with a cell whose raw score equals the
\* threshold and is coded 1, and a cell below the threshold coded 0.
C3_Witness ==
  /\ pc = "done" /\ ~args.apply_mask /\ args.threshold # None
  /\ \E k \in Cells : RawScore.data[k] = args.threshold.val /\ result.data[k] = 1
  /\ \E k \in Cells : RawScore.data[k] < args.threshold.val /\ result.data[k] = 0

\* C4: with threshold=None and apply_mask=False the result is, from the
\* compute step to the return, the array sarg_index.compute(bands) gave.
C4_RawPassThrough ==
  (pc \in AfterCompute /\ ~args.apply_mask /\ args.threshold = None) =>
    result = RawScore

\* A finished run without threshold and mask, for a tile with a masked-out
\* (cloud) pixel, returning scores that differ from cell to cell.
C4_Witness ==
  /\ pc = "done" /\ ~args.apply_mask /\ args.threshold = None
  /\ SCL # None /\ \E k \in Cells : SCL.data[k] \notin args.mask_keep_categs
  /\ \E j, k \in Cells : result.data[j] # result.data[k]

\* C5: a run that fails has written no output file.
C5_AllOrNothing == (pc = "failed") => (written = <<>>)

\* C6: when apply_mask is true and the SCL cannot be loaded, the run returns
\* no result and writes no output.
C6_MaskLoadErrorSurfaced ==
  (args.apply_mask /\ SCLAbsent) => (pc # "done" /\ written = <<>>)

\* C7: with apply_mask=False load_SCL is never called, and the run does not
\* fail on the SCL.
C7_SCLOnlyWhenMasking ==
  ~args.apply_mask =>
    /\ "load_SCL" \notin Range(calls)
    /\ ~(pc = "failed" /\ error.line = 126)

\* C8: when the image directory or a required band is absent, the run fails
\* on the load (the None that load_channels returned is subscripted, line
\* 104): no band set exists, compute() is not called and nothing is written.
C8_MissingBandFailsFast ==
  (pc # "load_channels" /\ BandsAbsent) =>
    /\ pc = "failed"
    /\ error = Err("TypeError", "'NoneType' object is not subscriptable", 104)
    /\ dataset = None
    /\ "compute" \notin Range(calls)
    /\ result = None
    /\ written = <<>>

\* A failed run on a dataset that has its image directory but lacks a band
\* the index requires, called with outputs requested.
C8_Witness ==
  /\ pc = "failed" /\ disk.imgdir /\ BandsAbsent
  /\ args.save_npy /\ "load_channels" \in Range(calls)

---------------------------------------------------------------------------
\* Properties of compute() (under SpecCompute)

Required == Range(required_channels(call.index))

Keys == DOMAIN call.channels_data

\* All the arrays of the band set have one shape.
SameShapes ==
  \A a, b \in Keys : call.channels_data[a].shape = call.channels_data[b].shape

\* C9: compute() on a band set that lacks required bands (and is otherwise
\* well formed) raises an error that names a band it lacks.
C9_MissingBandNamed ==
  (pc = "returned" /\ Keys \subseteq Required /\ Keys # Required /\ SameShapes) =>
    /\ IsErr(ret)
    /\ ret.type = "KeyError"
    /\ ret.arg \in Required \ Keys

\* C10: compute() on a band set that holds every required band, but not all
\* of one shape, raises an error.
C10_ShapeMismatchFails ==
  (pc = "returned" /\ Keys = Required /\ ~SameShapes) => IsErr(ret)


----------------------------------------------------------------------------
\* ASI_Index.test_model: the evaluation of a model on a labelled test set

\* The largest number of test samples of one kind.
MaxCount == 2

\* The kinds of test sample: the label (0 non-sargassum, 1 sargassum,
\* 2 masked) and the score the model gives the sample.
SampleKinds ==
  {[label |-> 0, score |-> Refl(2, 10)], [label |-> 0, score |-> Refl(8, 10)],
   [label |-> 1, score |-> Refl(2, 10)], [label |-> 1, score |-> Refl(5, 10)],
   [label |-> 2, score |-> Refl(8, 10)]}

\* A test set with 9 true negatives, 2 false positives, 1 false negative and
\* 8 true positives at the threshold 0.5.
ScenarioTestSet ==
  [k \in SampleKinds |->
     IF k.label = 2 THEN 0
     ELSE IF k.label = 0 THEN (IF k.score < Refl(5, 10) THEN 9 ELSE 2)
     ELSE (IF k.score < Refl(5, 10) THEN 1 ELSE 8)]

\* The test sets explored: how many samples of each kind, with at least one
\* sample that is not masked.
TestSets ==
  {ts \in [SampleKinds -> 0..MaxCount] : \E k \in SampleKinds : k.label # 2 /\ ts[k] > 0}
    \cup {ScenarioTestSet}

\* The sum of f over the set S
RECURSIVE Sum(_, _)
Sum(f, S) ==
  IF S = {} THEN 0 ELSE LET x == CHOOSE x \in S : TRUE IN f[x] + Sum(f, S \ {x})

\* lines 195-201: masked samples are removed, or relabelled 0
Relabelled(samples, remove_masked) ==
  LET label(k) == IF k.label = 2 THEN 0 ELSE k.label
      kept == IF remove_masked THEN {k \in DOMAIN samples : k.label # 2} ELSE DOMAIN samples
      kinds == {[label |-> label(k), score |-> k.score] : k \in kept}
  IN  [s \in kinds |->
         Sum(samples, {k \in kept : label(k) = s.label /\ k.score = s.score})]

\* A score equal to the threshold predicted negative.
Ypred_cls_Strict(score, predict_threshold) == IF score > predict_threshold THEN 1 ELSE 0

\* lines 225-227: the class predicted for a score
Ypred_cls(score, predict_threshold) == IF score >= predict_threshold THEN 1 ELSE 0

\* A confusion matrix with rows for predictions and columns for labels.
confusion_matrix_Transposed(samples, predict_threshold) ==
  [p \in 0..1 |-> [l \in 0..1 |->
     Sum(samples, {k \in DOMAIN samples :
                     k.label = l /\ Ypred_cls(k.score, predict_threshold) = p})]]

\* tf.math.confusion_matrix(labels, predictions): rows are labels, columns are
\* predictions
confusion_matrix(samples, predict_threshold) ==
  [l \in 0..1 |-> [p \in 0..1 |->
     Sum(samples, {k \in DOMAIN samples :
                     k.label = l /\ Ypred_cls(k.score, predict_threshold) = p})]]

RECURSIVE GCD(_, _)
GCD(a, b) == IF b = 0 THEN a ELSE GCD(b, a % b)

\* a / b on numpy integers: the quotient (as a fraction in lowest terms), and
\* with a warning instead of an exception nan for 0/0 and inf for a/0
TrueDivide(a, b) ==
  IF b = 0 THEN (IF a = 0 THEN [kind |-> "nan"] ELSE [kind |-> "inf"])
  ELSE [kind |-> "ratio", num |-> a \div GCD(a, b), den |-> b \div GCD(a, b)]

\* lines 244-252
derive_metrics(TN, FP, FN, TP) ==
  LET P == TP + FN
      N == TN + FP
  IN  [sensitivity |-> TrueDivide(TP, TP + FN),
       specificity |-> TrueDivide(TN, TN + FP),
       miss_rate   |-> TrueDivide(FN, FN + TP),
       fall_out    |-> TrueDivide(FN, FP + TN),
       precision   |-> TrueDivide(TP, TP + FP),
       accuracy    |-> TrueDivide(TP + TN, P + N),
       F1          |-> TrueDivide(2 * TP, 2 * TP + FP + FN)]

InitEval ==
  /\ test \in [test_set : TestSets, remove_masked : BOOLEAN, predict_threshold : {Refl(5, 10)}]
  /\ evaluation = None
  /\ train = None /\ loaded = None
  /\ query_args = None /\ api = <<>> /\ fs = None /\ dl = None
  /\ pc = "load_test_set"
  /\ inst = None /\ made = None /\ ncalls = 0
  /\ base = "none"
  /\ call = None /\ ret = None
  /\ args = None /\ disk = None /\ dataset = None /\ SCL = None /\ SCL_mask = None
  /\ result = None /\ written = <<>> /\ error = None /\ calls = <<>>

\* lines 184-201: load the test set, remove or relabel the masked samples
LoadTestSet ==
  /\ pc = "load_test_set"
  /\ evaluation' = [samples |-> Relabelled(test.test_set, test.remove_masked)]
  /\ pc' = "predict"
  /\ UNCHANGED <<args, disk, dataset, SCL, SCL_mask, result, written, error, calls, call, ret,
                 inst, made, ncalls, base, test, query_args, api, fs, dl, train, loaded>>

\* lines 223-236: predict, classify at the threshold, build the confusion
\* matrix and read TN, FP, FN, TP from it
Evaluate ==
  /\ pc = "predict"
  /\ LET cmatrix == confusion_matrix(evaluation.samples, test.predict_threshold)
     IN  evaluation' = [samples |-> evaluation.samples, cmatrix |-> cmatrix,
                        TN |-> cmatrix[0][0], FP |-> cmatrix[0][1],
                        FN |-> cmatrix[1][0], TP |-> cmatrix[1][1]]
  /\ pc' = "metrics"
  /\ UNCHANGED <<args, disk, dataset, SCL, SCL_mask, result, written, error, calls, call, ret,
                 inst, made, ncalls, base, test, query_args, api, fs, dl, train, loaded>>

\* lines 244-252: the derived metrics
DeriveMetrics ==
  /\ pc = "metrics"
  /\ evaluation' = [samples |-> evaluation.samples, cmatrix |-> evaluation.cmatrix,
                    TN |-> evaluation.TN, FP |-> evaluation.FP,
                    FN |-> evaluation.FN, TP |-> evaluation.TP,
                    metrics |-> derive_metrics(evaluation.TN, evaluation.FP,
                                               evaluation.FN, evaluation.TP)]
  /\ pc' = "report"
  /\ UNCHANGED <<args, disk, dataset, SCL, SCL_mask, result, written, error, calls, call, ret,
                 inst, made, ncalls, base, test, query_args, api, fs, dl, train, loaded>>

\* lines 254-268: print the report; the function returns
Report ==
  /\ pc = "report"
  /\ calls' = Append(calls, [accuracy |-> evaluation.metrics.accuracy,
                             positive_predictions |-> evaluation.TP + evaluation.FP,
                             negative_predictions |-> evaluation.TN + evaluation.FN,
                             sensitivity |-> <<evaluation.metrics.sensitivity, evaluation.TP>>,
                             specificity |-> <<evaluation.metrics.specificity, evaluation.TN>>,
                             miss_rate |-> <<evaluation.metrics.miss_rate, evaluation.FN>>,
                             fall_out |-> <<evaluation.metrics.fall_out, evaluation.FP>>,
                             precision |-> evaluation.metrics.precision,
                             F1 |-> evaluation.metrics.F1])
  /\ pc' = "evaluated"
  /\ UNCHANGED <<args, disk, dataset, SCL, SCL_mask, result, written, error, call, ret,
                 inst, made, ncalls, base, test, evaluation, query_args, api, fs, dl, train, loaded>>

NextEval == LoadTestSet \/ Evaluate \/ DeriveMetrics \/ Report

SpecEval == InitEval /\ [][NextEval]_vars

----------------------------------------------------------------------------
\* Sentinel2.search_products: one search of the catalog

\* A dict, as the sequence of its (key, value) pairs in insertion order
Dict(items) == [kind |-> "dict", items |-> items]

DictKeys(d) == [i \in 1..Len(d.items) |-> d.items[i][1]]

HasKey(d, key) == \E i \in 1..Len(d.items) : d.items[i][1] = key

\* d[key] = value on a dict that has no such key
DictAdd(d, key, value) == Dict(Append(d.items, <<key, value>>))

\* The query_args a caller passes
QueryArgs ==
  {None, Dict(<<>>),
   Dict(<< <<"cloudcoverpercentage", "[0 TO 30]">> >>),
   Dict(<< <<"orbitdirection", "Ascending">> >>),
   Dict(<< <<"orbitdirection", "Descending">> >>),
   Dict(<< <<"cloudcoverpercentage", "[0 TO 30]">>, <<"orbitdirection", "Ascending">> >>)}

\* The search_products calls explored
SearchCalls ==
  [tile : {"16QDJ", "16QEJ"}, date : {None, Str("20200101")},
   search_string : {None, Str("S2A_MSIL2A_2020*")},
   product_type : {"L2A", "L1C"}, satellite : {None, Str("A")},
   query_args : QueryArgs]

\* lines 316-326: the search string, as the sequence of its parts
search_string_of(c) ==
  IF c.search_string # None THEN <<c.search_string.val>>
  ELSE <<IF c.satellite # None THEN "S2" \o c.satellite.val ELSE "S2*",
         "_MSI" \o c.product_type, "_", c.date.val, "*", "_N*_R*", "_T", c.tile, "_*">>

\* lines 332-336: the call of api.query; "*query_args" hands the keys of the
\* dict over as positional arguments
search_query(c, qa) ==
  [op |-> "query",
   args |-> IF qa = None THEN <<>> ELSE DictKeys(qa),
   keywords |-> << <<"filename", search_string_of(c)>> >>]

InitSearch ==
  /\ call \in SearchCalls
  /\ query_args = call.query_args
  /\ pc = "search" /\ ret = None /\ error = None
  /\ api = <<>> /\ fs = None /\ dl = None
  /\ test = None /\ evaluation = None
  /\ train = None /\ loaded = None
  /\ inst = None /\ made = None /\ ncalls = 0
  /\ base = "none"
  /\ args = None /\ disk = None /\ dataset = None /\ SCL = None /\ SCL_mask = None
  /\ result = None /\ written = <<>> /\ calls = <<>>

\* search_products(tile, date, search_string, product_type, satellite,
\* query_args): it returns the products the catalog answers with, or {}
SearchProducts ==
  /\ pc = "search"
  /\ IF call.search_string = None /\ call.date = None
     THEN /\ Raise(Err("UnboundLocalError", "_date", 322))
          /\ UNCHANGED <<query_args, api, ret>>
     ELSE LET qa == IF query_args # None /\ ~HasKey(query_args, "orbitdirection")
                    THEN DictAdd(query_args, "orbitdirection", "Descending")
                    ELSE query_args
          IN  /\ query_args' = qa
              /\ api' = Append(api, search_query(call, qa))
              /\ \E found \in {<<>>, << <<"uuid", "product">> >>} : ret' = Dict(found)
              /\ pc' = "searched" /\ error' = error
  /\ UNCHANGED <<args, disk, dataset, SCL, SCL_mask, result, written, calls, call,
                 inst, made, ncalls, base, test, evaluation, fs, dl, train, loaded>>

NextSearch == SearchProducts

SpecSearch == InitSearch /\ [][NextSearch]_vars

----------------------------------------------------------------------------
\* Sentinel2.download_products: the download of the products of one search

\* The largest number of products of a search, and the largest max_retries.
MaxProducts == 2
MaxRetries == 2

\* A product of the catalog: its UUID and its identifier, as the sequence of
\* the fields between the underscores (the sixth, "T" and the tile, in two
\* parts)
Product(uuid, sat, tile) ==
  [uuid |-> uuid,
   identifier |-> <<sat, "MSIL2A", "20200101T161651", "N0213", "R140", <<"T", tile>>,
                    "20200101T201530">>]

Catalog ==
  {Product("uuid-1", "S2A", "16QDJ"), Product("uuid-2", "S2B", "16QDJ"),
   Product("uuid-3", "S2A", "16QEJ")}

\* The sequences of at most n different elements of S: the items of a dict
RECURSIVE SeqsOf(_, _)
SeqsOf(S, n) ==
  IF n = 0 THEN {<<>>}
  ELSE {<<>>} \cup {<<x>> \o t : x \in S, t \in {u \in SeqsOf(S, n - 1) : TRUE}}

Distinct(q) == \A a, b \in 1..Len(q) : q[a] = q[b] => a = b

\* tile = product_info["identifier"].split("_")[5][1:]; the tile directory
tile_dir_path(p) == <<"T" \o p.identifier[6][2]>>

\* zip_fpath and unzipped_path
zip_fpath(p) == tile_dir_path(p) \o <<p.identifier, ".zip">>

unzipped_path(p) == tile_dir_path(p) \o <<p.identifier, ".SAFE">>

\* A download_products that does not look for the zip file.
already_downloaded_Never(files, p) == FALSE

\* os.path.isfile(zip_fpath)
already_downloaded(files, p) == zip_fpath(p) \in files

\* The data directories explored: a zip file or a .SAFE directory lies in a
\* tile directory that exists.
DataDirs(products) ==
  LET paths == UNION {{tile_dir_path(products[k]), zip_fpath(products[k]),
                       unzipped_path(products[k])} : k \in 1..Len(products)}
  IN  {f \in SUBSET paths :
         \A k \in 1..Len(products) :
            (zip_fpath(products[k]) \in f \/ unzipped_path(products[k]) \in f)
               => tile_dir_path(products[k]) \in f}

InitDownload ==
  /\ \E products \in {q \in SeqsOf(Catalog, MaxProducts) : Distinct(q)} :
       /\ dl \in [products : {products}, unzip : BOOLEAN, max_retries : 0..MaxRetries,
                  i : {1}, tries_left : {0}, fs0 : DataDirs(products)]
       /\ fs = dl.fs0
  /\ pc = "next_product"
  /\ api = <<>> /\ error = None
  /\ query_args = None /\ call = None /\ ret = None
  /\ test = None /\ evaluation = None
  /\ train = None /\ loaded = None
  /\ inst = None /\ made = None /\ ncalls = 0
  /\ base = "none"
  /\ args = None /\ disk = None /\ dataset = None /\ SCL = None /\ SCL_mask = None
  /\ result = None /\ written = <<>> /\ calls = <<>>

\* A retry loop that takes one more turn.
retry_loop_OneMore(tries_left) == IF tries_left >= 0 THEN "download" ELSE "unzip"

\* line 221: while tries_left > 0
retry_loop(tries_left) == IF tries_left > 0 THEN "download" ELSE "unzip"

\* The product the loop is at
product == dl.products[dl.i]

\* lines 197-218: the next product of the loop; a product whose zip file
\* exists is not downloaded, for another the tile directory is created
NextProduct ==
  /\ pc = "next_product"
  /\ IF dl.i > Len(dl.products)
     THEN pc' = "returned" /\ UNCHANGED <<fs, dl>>
     ELSE IF already_downloaded(fs, product)
     THEN pc' = "unzip" /\ UNCHANGED <<fs, dl>>
     ELSE /\ fs' = fs \cup {tile_dir_path(product)}
          /\ dl' = [dl EXCEPT !.tries_left = dl.max_retries]
          /\ pc' = retry_loop(dl.max_retries)
  /\ UNCHANGED <<args, disk, dataset, SCL, SCL_mask, result, written, error, calls, call, ret,
                 inst, made, ncalls, base, test, evaluation, query_args, api, train, loaded>>

\* The api.download call of one turn of the retry loop, as it is logged
download_call(outcome) ==
  [op |-> "download", uuid |-> product.uuid, outcome |-> outcome,
   had_zip |-> zip_fpath(product) \in fs, had_dir |-> tile_dir_path(product) \in fs]

\* lines 221-224: api.download succeeds and the loop is left
DownloadOk ==
  /\ pc = "download"
  /\ api' = Append(api, download_call("ok"))
  /\ fs' = fs \cup {zip_fpath(product)}
  /\ pc' = "unzip"
  /\ UNCHANGED <<args, disk, dataset, SCL, SCL_mask, result, written, error, calls, call, ret,
                 inst, made, ncalls, base, test, evaluation, query_args, dl, train, loaded>>

\* lines 225-232: api.download raises InvalidChecksumError, with or without
\* the bad zip file left on disk; the handler removes the zip file
DownloadBadChecksum ==
  /\ pc = "download"
  /\ api' = Append(api, download_call("InvalidChecksumError"))
  /\ dl' = [dl EXCEPT !.tries_left = dl.tries_left - 1]
  /\ \E left \in BOOLEAN :
       LET files == IF left THEN fs \cup {zip_fpath(product)} ELSE fs
       IN  IF zip_fpath(product) \in files
           THEN /\ fs' = files \ {zip_fpath(product)}
                /\ pc' = retry_loop(dl.tries_left - 1)
                /\ error' = error
           ELSE /\ fs' = files
                /\ Raise(Err("FileNotFoundError", zip_fpath(product), 232))
  /\ UNCHANGED <<args, disk, dataset, SCL, SCL_mask, result, written, calls, call, ret,
                 inst, made, ncalls, base, test, evaluation, query_args, train, loaded>>

\* lines 233-239: api.download raises another error
DownloadError ==
  /\ pc = "download"
  /\ api' = Append(api, download_call("error"))
  /\ dl' = [dl EXCEPT !.tries_left = dl.tries_left - 1]
  /\ pc' = retry_loop(dl.tries_left - 1)
  /\ UNCHANGED <<args, disk, dataset, SCL, SCL_mask, result, written, error, calls, call, ret,
                 inst, made, ncalls, base, test, evaluation, query_args, fs, train, loaded>>

\* lines 244-257: unzip if asked, unless the .SAFE directory exists
Unzip ==
  /\ pc = "unzip"
  /\ IF dl.unzip /\ unzipped_path(product) \notin fs
     THEN IF zip_fpath(product) \in fs
          THEN /\ fs' = fs \cup {unzipped_path(product)}
               /\ dl' = [dl EXCEPT !.i = dl.i + 1]
               /\ pc' = "next_product" /\ error' = error
          ELSE /\ Raise(Err("FileNotFoundError", zip_fpath(product), 254))
               /\ UNCHANGED <<fs, dl>>
     ELSE /\ dl' = [dl EXCEPT !.i = dl.i + 1]
          /\ pc' = "next_product" /\ UNCHANGED <<fs, error>>
  /\ UNCHANGED <<args, disk, dataset, SCL, SCL_mask, result, written, calls, call, ret,
                 inst, made, ncalls, base, test, evaluation, query_args, api, train, loaded>>

NextDownload == NextProduct \/ DownloadOk \/ DownloadBadChecksum \/ DownloadError \/ Unzip

SpecDownload == InitDownload /\ [][NextDownload]_vars

\* The call is not left half-way: a step that can be taken is taken.
FairDownload == InitDownload /\ [][NextDownload]_vars /\ WF_vars(NextDownload)

----------------------------------------------------------------------------
\* generate_training_set and ASI_Index.load_ML_dataset: a training set is
\* written and read back

\* The largest number of pixels of a tile a training set is made from.
MaxTrainPix == 4

TrainShapes == {sh \in (1..MaxTrainPix) \X (1..MaxTrainPix) : sh[1] * sh[2] <= MaxTrainPix}

\* The features to save to the training set
ASI_features == <<"B02", "B03", "B04", "B05", "B06", "B07", "B8A", "B11", "B12">>

\* The band b as load_channels returns it: values that differ from band to
\* band and from pixel to pixel
FeatureArray(b, shape) ==
  Arr("float32", shape, [k \in 1..Size(shape) |-> 16 * BandPos(b) + k])

\* The image coordinates (i, j) of the cell at position p of a flattened
\* array with NY columns
Coord(p, NY) == <<(p - 1) \div NY, (p - 1) % NY>>

\* array[i, j]
At(array, ij) == array.data[ij[1] * array.shape[2] + ij[2] + 1]

\* np.argwhere(array == v), from position p on: the coordinates in row-major
\* order
RECURSIVE argwhere(_, _, _)
argwhere(array, v, p) ==
  IF p > Size(array.shape) THEN <<>>
  ELSE (IF array.data[p] = v THEN <<Coord(p, array.shape[2])>> ELSE <<>>)
         \o argwhere(array, v, p + 1)

\* random.sample(population, n): the samples that can be drawn
RECURSIVE Samples(_, _)
Samples(population, n) ==
  IF n = 0 THEN {<<>>}
  ELSE UNION {{<<x>> \o t : t \in Samples(population \ {x}, n - 1)} : x \in population}

\* The concatenation of the rows
RECURSIVE Flatten(_)
Flatten(rows) == IF rows = <<>> THEN <<>> ELSE rows[1] \o Flatten(Tail(rows))

\* Row r of a flat array with C columns
RowOf(data, r, C) == SubSeq(data, (r - 1) * C + 1, r * C)

\* lines 114-118: np.stack of the 9 bands and the class array, transposed to
\* (NX, NY, 10)
full_train_set(channels, AFAI_mask) ==
  LET NFEAT == Len(ASI_features)
  IN  Arr("float32", <<AFAI_mask.shape[1], AFAI_mask.shape[2], NFEAT + 1>>,
          Flatten([p \in 1..Size(AFAI_mask.shape) |->
                     [c \in 1..(NFEAT + 1) |->
                        IF c <= NFEAT THEN channels[ASI_features[c]].data[p]
                        ELSE AFAI_mask.data[p]]]))

\* lines 120-153: the small training set; nonsarg_coords is the random
\* selection
small_train_set(channels, AFAI_mask, nonsarg_coords) ==
  LET NFEAT == Len(ASI_features)
      sargassum_coords == argwhere(AFAI_mask, 1, 1)
      not_sargassum_coords == argwhere(AFAI_mask, 0, 1)
      num_sarg == Len(sargassum_coords)
      num_tot == 2 * num_sarg
      ncols == 2 + NFEAT + 1
      ij(k) == IF k <= num_sarg - 1 THEN sargassum_coords[k + 1]
               ELSE not_sargassum_coords[k + 1]
  IN  IF \E k \in 0..(num_tot - 1) : k > num_sarg - 1 /\ k + 1 > Len(not_sargassum_coords)
      THEN Err("IndexError", "index is out of bounds for axis 0", 148)
      ELSE Arr("float32", <<num_tot, ncols>>,
               Flatten([r \in 1..num_tot |->
                          [c \in 1..ncols |->
                             IF c = 1 THEN ij(r - 1)[1]
                             ELSE IF c = 2 THEN ij(r - 1)[2]
                             ELSE IF c = ncols THEN At(AFAI_mask, ij(r - 1))
                             ELSE At(channels[ASI_features[c - 2]], ij(r - 1))]]))

\* A loader that takes the columns one further to the right.
load_ML_dataset_Shifted(saved) ==
  LET ndim == Len(saved.shape)
      C == saved.shape[ndim]
      N == IF ndim = 2 THEN saved.shape[1] ELSE saved.shape[1] * saved.shape[2]
      first == IF ndim = 2 THEN 4 ELSE 2
  IN  [names |-> IF ndim = 2 THEN <<"coordX", "coordY">> \o ASI_features \o <<"sargassum">>
                 ELSE ASI_features \o <<"sargassum">>,
       X |-> Arr(saved.dtype, <<N, 9>>,
                 Flatten([r \in 1..N |->
                            SubSeq(RowOf(saved.data, r, C), first, first + 8)])),
       y |-> Arr("int", <<N>>, [r \in 1..N |-> RowOf(saved.data, r, C)[C]])]

\* ASI_Index.load_ML_dataset: X and y of a saved training set
load_ML_dataset(saved) ==
  LET ndim == Len(saved.shape)
      C == saved.shape[ndim]
      N == IF ndim = 2 THEN saved.shape[1] ELSE saved.shape[1] * saved.shape[2]
      first == IF ndim = 2 THEN 3 ELSE 1
  IN  [names |-> IF ndim = 2 THEN <<"coordX", "coordY">> \o ASI_features \o <<"sargassum">>
                 ELSE ASI_features \o <<"sargassum">>,
       X |-> Arr(saved.dtype, <<N, 9>>,
                 Flatten([r \in 1..N |->
                            SubSeq(RowOf(saved.data, r, C), first, first + 8)])),
       y |-> Arr("int", <<N>>, [r \in 1..N |-> RowOf(saved.data, r, C)[first + 9]])]

\* The class arrays detect_sargassum hands back: 0, 1 or 2 in every cell
InitTrain ==
  /\ \E shape \in TrainShapes :
       train \in [full_array : BOOLEAN,
                  AFAI_mask : {Arr("uint8", shape, d) : d \in [1..Size(shape) -> {0, 1, 2}]},
                  channels : {[b \in Range(ASI_features) |-> FeatureArray(b, shape)]},
                  nonsarg_coords : {None}, train_set : {None}]
  /\ loaded = None
  /\ pc = "generate" /\ error = None
  /\ query_args = None /\ api = <<>> /\ fs = None /\ dl = None
  /\ call = None /\ ret = None
  /\ test = None /\ evaluation = None
  /\ inst = None /\ made = None /\ ncalls = 0
  /\ base = "none"
  /\ args = None /\ disk = None /\ dataset = None /\ SCL = None /\ SCL_mask = None
  /\ result = None /\ written = <<>> /\ calls = <<>>

\* generate_training_set with full_array=True, from the class array on
GenerateFull ==
  /\ pc = "generate" /\ train.full_array
  /\ train' = [train EXCEPT !.train_set = full_train_set(train.channels, train.AFAI_mask)]
  /\ pc' = "saved"
  /\ UNCHANGED <<args, disk, dataset, SCL, SCL_mask, result, written, error, calls, call, ret,
                 inst, made, ncalls, base, test, evaluation, query_args, api, fs, dl, loaded>>

\* generate_training_set with full_array=False, from the class array on
GenerateSmall ==
  /\ pc = "generate" /\ ~train.full_array
  /\ LET population == Range(argwhere(train.AFAI_mask, 0, 1))
         num_sarg == Len(argwhere(train.AFAI_mask, 1, 1))
     IN  IF num_sarg > Cardinality(population)
         THEN /\ Raise(Err("ValueError", "Sample larger than population", 138))
              /\ train' = train
         ELSE \E nonsarg_coords \in Samples(population, num_sarg) :
                LET train_set == small_train_set(train.channels, train.AFAI_mask,
                                                 nonsarg_coords)
                IN  IF IsErr(train_set)
                    THEN /\ Raise(train_set)
                         /\ train' = [train EXCEPT !.nonsarg_coords = nonsarg_coords]
                    ELSE /\ train' = [train EXCEPT !.nonsarg_coords = nonsarg_coords,
                                                   !.train_set = train_set]
                         /\ pc' = "saved" /\ error' = error
  /\ UNCHANGED <<args, disk, dataset, SCL, SCL_mask, result, written, calls, call, ret,
                 inst, made, ncalls, base, test, evaluation, query_args, api, fs, dl, loaded>>

\* ASI_Index.load_ML_dataset on the saved file
LoadMLDataset ==
  /\ pc = "saved"
  /\ loaded' = load_ML_dataset(train.train_set)
  /\ pc' = "loaded"
  /\ UNCHANGED <<args, disk, dataset, SCL, SCL_mask, result, written, error, calls, call, ret,
                 inst, made, ncalls, base, test, evaluation, query_args, api, fs, dl, train>>

NextTrain == GenerateFull \/ GenerateSmall \/ LoadMLDataset

SpecTrain == InitTrain /\ [][NextTrain]_vars

----------------------------------------------------------------------------
\* Claims about an index instance

\* A compute() call on an ASI_Index has returned or raised.
ComputedASI == pc = "computed" /\ call.index = "ASI"

\* A compute() call on an AFAI_Index has returned or raised.
ComputedAFAI == pc = "computed" /\ call.index = "AFAI"

\* The band set of the call holds exactly the required bands.
CompleteBands == DOMAIN call.channels_data = Range(required_channels(call.index))

C12_BatchInvariant ==
  ComputedASI =>
     /\ \A b \in BatchSizes : ASI_Index_compute(inst, call.channels_data, b).ret = ret
     /\ (~IsErr(ret) /\ inst.model.fn = "const") =>
           /\ ret.shape = call.channels_data[ASI_required_channels[1]].shape
           /\ \A k \in DOMAIN ret.data : ret.data[k] = ConstScore

C12_Witness ==
  /\ ComputedASI /\ ~IsErr(ret) /\ inst.model.fn = "const"
  /\ call.batch = IntVal(4)
  /\ ret.shape = <<3, 3>> /\ \A k \in 1..9 : ret.data[k] = ConstScore

\* The value of band b at pixel (i, j) of the band set of the call
Pixel(b, i, j) ==
  LET a == call.channels_data[b] IN a.data[(i - 1) * a.shape[2] + j]

\* C13: cell (i, j) of the array compute() returns is the score of the
\* feature vector (B02, B03, B04, B05, B06, B07, B8A, B11, B12) at pixel
\* (i, j), and the array has the shape NX x NY of the tile.
C13_PixelOrder ==
  (ComputedASI /\ ~IsErr(ret)) =>
     LET NX == call.channels_data["B02"].shape[1]
         NY == call.channels_data["B02"].shape[2]
     IN  /\ ret.shape = <<NX, NY>>
         /\ \A i \in 1..NX, j \in 1..NY :
              ret.data[(i - 1) * NY + j] =
                ScoreOf(inst.model,
                        <<Pixel("B02", i, j), Pixel("B03", i, j), Pixel("B04", i, j),
                          Pixel("B05", i, j), Pixel("B06", i, j), Pixel("B07", i, j),
                          Pixel("B8A", i, j), Pixel("B11", i, j), Pixel("B12", i, j)>>)

C13_Witness ==
  /\ ComputedASI /\ ~IsErr(ret) /\ inst.model.fn = "net"
  /\ ret.shape = <<2, 3>>
  /\ \E k, l \in DOMAIN ret.data : ret.data[k] # ret.data[l]

\* C14: after a compute() call the batch_size, model and model_path of the
\* instance are those its constructor set (or, for the model, those of the
\* load_model that followed), and a call without a batch_size argument runs
\* predict with the construction-time batch size.
C14_ConfigReadOnly ==
  ComputedASI =>
     /\ inst.batch_size = made.batch_size
     /\ made.model # None => inst.model = made.model /\ inst.model_path = made.model_path
     /\ (call.batch_size = None /\ call.batch # None) => call.batch = made.batch_size

\* The band arrays as load_channels read them from the dataset directory
LoadedBands ==
  load_channels(disk, required_channels(args.sarg_index), QUANT_VAL_ASI).channels

C16_ClosedForm ==
  (ComputedAFAI /\ inst.meta_channels = AFAI_meta_channels /\ ~IsErr(ret)) =>
     LET RED == call.channels_data["B04"]
         NIR == call.channels_data["B06"]
         SWIR == call.channels_data["B8A"]
     IN  /\ ret.shape = NIR.shape
         /\ \A p \in DOMAIN ret.data :
              8 * ret.data[p] = 8 * NIR.data[p] - 5 * RED.data[p] - 3 * SWIR.data[p]
         /\ AFAI_Index_compute(inst.meta_channels, call.channels_data) = ret
         /\ call.channels_data = ScenarioBands =>
              ret.data[1] = Refl(5, 100) /\ NIR.data[1] - ret.data[1] = Refl(25, 100)

C16_Witness ==
  /\ ComputedAFAI /\ inst.meta_channels = AFAI_meta_channels
  /\ call.channels_data = ScenarioBands
  /\ ret.shape = <<2, 2>> /\ ret.data[1] = Refl(5, 100)

\* The wavelengths of meta are strictly ordered: RED < NIR < SWIR.
Ordered(meta) == meta.RED.lambda < meta.NIR.lambda /\ meta.NIR.lambda < meta.SWIR.lambda

\* C17: an AFAI_Index whose wavelengths are not strictly ordered is rejected
\* by its constructor, so no instance holds unordered wavelengths and no
\* compute() call runs with them.
C17_WavelengthsValidated ==
  /\ (inst # None /\ inst.kind = "AFAI_Index") => Ordered(inst.meta_channels)
  /\ (ComputedAFAI /\ ~IsErr(ret)) => Ordered(inst.meta_channels)


----------------------------------------------------------------------------
\* Claims about test_model

\* The metrics of the call have been derived.
Derived == pc \in {"report", "evaluated"}

\* The number of test samples that are evaluated, have a label in labels and
\* are predicted the class cls
Counted(labels, cls) ==
  Sum(test.test_set,
      {k \in SampleKinds :
         /\ k.label \in labels
         /\ ~(test.remove_masked /\ k.label = 2)
         /\ (k.score >= test.predict_threshold) = (cls = 1)})

\* Sargassum samples predicted sargassum, and so on; a masked sample that is
\* evaluated counts as non-sargassum.
TruePos == Counted({1}, 1)
FalseNeg == Counted({1}, 0)
FalsePos == Counted({0, 2}, 1)
TrueNeg == Counted({0, 2}, 0)

\* The metric m is the fraction a / b.
IsRatio(m, a, b) == m.kind = "ratio" /\ m.num * b = a * m.den

\* C18: with non-zero denominators, sensitivity = TP/(TP+FN), specificity =
\* TN/(TN+FP), precision = TP/(TP+FP), accuracy = (TP+TN)/(TP+TN+FP+FN) and
\* F1 = 2TP/(2TP+FP+FN), where TP, FP, FN and TN count the evaluated samples;
\* TP=8, FP=2, FN=1, TN=9 give 8/9, 9/11, 8/10, 17/20 and 16/19.
C18_Metrics ==
  Derived =>
     LET m == evaluation.metrics
         TP == TruePos
         FP == FalsePos
         FN == FalseNeg
         TN == TrueNeg
     IN  /\ TP + FN # 0 => IsRatio(m.sensitivity, TP, TP + FN)
         /\ TN + FP # 0 => IsRatio(m.specificity, TN, TN + FP)
         /\ TP + FP # 0 => IsRatio(m.precision, TP, TP + FP)
         /\ IsRatio(m.accuracy, TP + TN, TP + TN + FP + FN)
         /\ 2 * TP + FP + FN # 0 => IsRatio(m.F1, 2 * TP, 2 * TP + FP + FN)
         /\ test.test_set = ScenarioTestSet =>
              /\ IsRatio(m.sensitivity, 8, 9) /\ IsRatio(m.specificity, 9, 11)
              /\ IsRatio(m.precision, 8, 10) /\ IsRatio(m.accuracy, 17, 20)
              /\ IsRatio(m.F1, 16, 19)

C18_Witness ==
  /\ pc = "evaluated" /\ test.test_set = ScenarioTestSet
  /\ evaluation.TP = 8 /\ evaluation.FP = 2 /\ evaluation.FN = 1 /\ evaluation.TN = 9
  /\ evaluation.metrics.F1 = [kind |-> "ratio", num |-> 16, den |-> 19]

\* C19: with non-zero denominators, miss rate = FN/(FN+TP) and fall-out =
\* FP/(FP+TN).
C19_MissRateFallOut ==
  Derived =>
     /\ FalseNeg + TruePos # 0 =>
          IsRatio(evaluation.metrics.miss_rate, FalseNeg, FalseNeg + TruePos)
     /\ FalsePos + TrueNeg # 0 =>
          IsRatio(evaluation.metrics.fall_out, FalsePos, FalsePos + TrueNeg)

\* The metrics of the call with their standard denominators
Denominators ==
  [sensitivity |-> TruePos + FalseNeg, specificity |-> TrueNeg + FalsePos,
   miss_rate |-> FalseNeg + TruePos, fall_out |-> FalsePos + TrueNeg,
   precision |-> TruePos + FalsePos, accuracy |-> TruePos + TrueNeg + FalsePos + FalseNeg,
   F1 |-> 2 * TruePos + FalsePos + FalseNeg]

\* C20: the evaluation does not fail on a zero denominator: each metric
\* whose denominator is zero is nan, every other metric is a fraction, and
\* the call reaches its end.
C20_ZeroDenominatorNaN ==
  /\ pc # "failed"
  /\ Derived =>
       \A name \in DOMAIN Denominators :
          IF Denominators[name] = 0
          THEN evaluation.metrics[name].kind = "nan"
          ELSE evaluation.metrics[name].kind = "ratio"



\* The confusion matrix of the call has been read.
Evaluated == pc \in {"metrics", "report", "evaluated"}

\* The number of samples of the test set whose label is in labels
Labelled(labels) == Sum(test.test_set, {k \in SampleKinds : k.label \in labels})

\* The number of samples of the test set that are evaluated and whose score
\* is at or above (positive) or below (~positive) the threshold
Scored(positive) ==
  Sum(test.test_set,
      {k \in SampleKinds :
         /\ ~(test.remove_masked /\ k.label = 2)
         /\ (k.score >= test.predict_threshold) = positive})

\* C28: a sample is predicted positive exactly when its score is >=
\* predict_threshold, and TP+FP+FN+TN is the number of evaluated samples: with
\* remove_masked=True the samples labelled 2 are counted in no cell; with
\* remove_masked=False they are counted as actual negatives and the four
\* cells sum to the size of the test set.
C28_CellsCountEvaluated ==
  Evaluated =>
     LET e == evaluation
     IN  /\ e.TP + e.FP = Scored(TRUE)
         /\ e.TN + e.FN = Scored(FALSE)
         /\ e.TP + e.FN = Labelled({1})
         /\ test.remove_masked =>
              /\ e.TP + e.FP + e.FN + e.TN = Labelled({0, 1})
              /\ e.TN + e.FP = Labelled({0})
         /\ ~test.remove_masked =>
              /\ e.TP + e.FP + e.FN + e.TN = Labelled({0, 1, 2})
              /\ e.TN + e.FP = Labelled({0, 2})

\* An evaluation that keeps masked samples, over a test set with a masked
\* sample and a sargassum sample whose score is the threshold
C28_Witness ==
  /\ pc = "evaluated" /\ ~test.remove_masked
  /\ Labelled({2}) > 0
  /\ \E k \in SampleKinds :
       k.label = 1 /\ k.score = test.predict_threshold /\ test.test_set[k] > 0
  /\ evaluation.TP > 0 /\ evaluation.FP = Labelled({2}) + test.test_set[[label |-> 0, score |-> Refl(8, 10)]]

----------------------------------------------------------------------------
\* Claims about the outputs of detect_sargassum

\* The metadata load_channels read from the dataset directory
LoadedMeta == load_channels(disk, required_channels(args.sarg_index), QUANT_VAL_ASI).meta

\* meta has the loaded width, height, CRS and transform, the dtype of the
\* result array and the band count 1.
WriterMeta(meta) ==
  /\ {"width", "height", "crs", "transform", "dtype", "count"} \subseteq DOMAIN meta
  /\ meta.width = LoadedMeta.width /\ meta.height = LoadedMeta.height
  /\ meta.crs = LoadedMeta.crs /\ meta.transform = LoadedMeta.transform
  /\ meta.dtype = result.dtype /\ meta.count = 1

\* C21: the metadata handed to the writer of every GeoTIFF and JPEG2000
\* output, written or refused, has the loaded width, height, CRS and
\* transform, the dtype of the result array and the band count 1.
C21_WriterMetadata ==
  /\ \A k \in DOMAIN written : written[k].fmt \in {"tif", "jp2"} => WriterMeta(written[k].meta)
  /\ (pc = "failed" /\ error.line \in {193, 219}) => WriterMeta(img_meta)



\* The calls detect_sargassum makes before the threshold step, in order
StepOrder == <<"locate_data_path", "load_channels", "load_SCL", "compute">>

\* The formats detect_sargassum writes, in order
FormatOrder == <<"npy", "tif", "jp2">>

FormatPos(fmt) == CHOOSE i \in 1..Len(FormatOrder) : FormatOrder[i] = fmt

IsPrefix(s, t) == Len(s) <= Len(t) /\ s = SubSeq(t, 1, Len(s))

\* The final array of the run: the index computed once on the loaded bands,
\* thresholded, then masked
FinalArray ==
  ApplyMask(ApplyThreshold(RawScore, args.threshold),
            SCL_mask, args.apply_mask, args.threshold, args.masked_value)

\* C25: the steps of a run occur in one fixed order: the bands are loaded,
\* then the classification array, then compute() is invoked exactly once, then
\* the threshold and then the mask are applied, and only then outputs are
\* written, in the order npy, GeoTIFF, JPEG2000; every output holds the same
\* final array, which is the array returned.
C25_FixedOrder ==
  /\ IsPrefix(calls, StepOrder)
  /\ pc \in AfterCompute => calls = StepOrder
  /\ written # <<>> =>
       /\ pc \in {"save_geotiff", "save_jp2", "done", "failed"}
       /\ calls = StepOrder
       /\ result = FinalArray
  /\ \A i \in DOMAIN written : written[i].data = result
  /\ \A i, j \in DOMAIN written :
       i < j => FormatPos(written[i].fmt) < FormatPos(written[j].fmt)
  /\ pc = "done" => result = FinalArray

\* A finished run that thresholded, masked a cell and wrote the three
\* outputs
C25_Witness ==
  /\ pc = "done" /\ args.apply_mask /\ args.threshold # None
  /\ [i \in DOMAIN written |-> written[i].fmt] = FormatOrder
  /\ \E k \in Cells : result.data[k] = 2
  /\ \E k \in Cells : result.data[k] = 1
  /\ args.sarg_index = "ASI"


\* The formats written so far
WrittenFormats == {written[i].fmt : i \in DOMAIN written}

\* The JPEG2000 step of the run is over: the call returned or failed there
Jp2StepOver == pc = "done" \/ (pc = "failed" /\ error.line = 219)

\* C30: a JPEG2000 output is written only for a thresholded run. With
\* save_jp2=True and threshold=None the write is skipped, the npy and GeoTIFF
\* outputs asked for are written and the result is returned; with a threshold
\* set and save_jp2=True the JPEG2000 file is written (unless the file system
\* refuses the write).
C30_Jp2OnlyThresholded ==
  /\ "jp2" \in WrittenFormats => args.threshold # None
  /\ (pc = "done" /\ args.save_jp2 /\ args.threshold = None) =>
       /\ "jp2" \notin WrittenFormats
       /\ args.save_npy <=> "npy" \in WrittenFormats
       /\ args.save_geotiff <=> "tif" \in WrittenFormats
       /\ result = FinalArray
  /\ (Jp2StepOver /\ args.save_jp2 /\ args.threshold # None) =>
       \/ "jp2" \in WrittenFormats
       \/ error.type = "RasterioIOError"

----------------------------------------------------------------------------
\* Claims about the search and the download of products

\* The value the query q gives the keyword key, or None
Keyword(q, key) ==
  IF \E i \in 1..Len(q.keywords) : q.keywords[i][1] = key
  THEN Str(q.keywords[CHOOSE i \in 1..Len(q.keywords) : q.keywords[i][1] = key][2])
  ELSE None

\* The orbitdirection the caller asked for, or None
CallerOrbit ==
  IF call.query_args # None /\ HasKey(call.query_args, "orbitdirection")
  THEN Str(call.query_args.items[
         CHOOSE i \in 1..Len(call.query_args.items) :
           call.query_args.items[i][1] = "orbitdirection"][2])
  ELSE None

\* C22: the query sent to the catalog carries orbitdirection = "Descending"
\* when the caller set no orbitdirection, and the caller's orbitdirection
\* otherwise.
C22_DescendingByDefault ==
  pc = "searched" =>
     Keyword(api[1], "orbitdirection") =
       (IF CallerOrbit = None THEN Str("Descending") ELSE CallerOrbit)

\* The api.download calls made so far for product p, in order
RECURSIVE DownloadsOf(_, _)
DownloadsOf(log, p) ==
  IF log = <<>> THEN <<>>
  ELSE IF log[1].op = "download" /\ log[1].uuid = p.uuid
  THEN <<log[1]>> \o DownloadsOf(Tail(log), p)
  ELSE DownloadsOf(Tail(log), p)

Products == {dl.products[k] : k \in 1..Len(dl.products)}

\* C23: no api.download call is made for a product whose zip file exists,
\* and that zip file stays in place; every api.download call finds the tile
\* directory in place.
C23_NoRedownload ==
  /\ \A k \in 1..Len(api) :
        api[k].op = "download" => ~api[k].had_zip /\ api[k].had_dir
  /\ \A p \in Products :
        zip_fpath(p) \in dl.fs0 => zip_fpath(p) \in fs /\ DownloadsOf(api, p) = <<>>

C23_Witness ==
  /\ pc = "returned"
  /\ \E p, q \in Products :
       /\ zip_fpath(p) \in dl.fs0 /\ DownloadsOf(api, p) = <<>>
       /\ tile_dir_path(q) \notin dl.fs0 /\ Len(DownloadsOf(api, q)) > 0
       /\ zip_fpath(q) \in fs

\* The call has returned or raised.
DownloadOver == pc \in {"returned", "failed"}

\* C26: for each product at most max_retries api.download calls are made,
\* none after a call that succeeded, and the call comes to an end whatever
\* the downloads raise.
C26_BoundedRetries ==
  /\ [](\A p \in Products :
          LET d == DownloadsOf(api, p)
          IN  /\ Len(d) <= dl.max_retries
              /\ \A k \in 1..Len(d) : d[k].outcome = "ok" => k = Len(d))
  /\ <>DownloadOver

C26_Witness ==
  /\ pc = "returned" /\ dl.max_retries = MaxRetries
  /\ \E p \in Products :
       LET d == DownloadsOf(api, p)
       IN  /\ Len(d) = MaxRetries
           /\ d[1].outcome = "InvalidChecksumError"
           /\ d[Len(d)].outcome = "error"

\* C27: when every one of the max_retries download attempts of a product
\* has failed, download_products does not raise.
C27_FailedProductSkipped ==
  pc = "failed" => ~(dl.max_retries > 0 /\ dl.tries_left = 0)


----------------------------------------------------------------------------
\* Claims about training sets

\* The number of pixels the class array gives the class v
NumClass(v) == Len(argwhere(train.AFAI_mask, v, 1))

\* The rows of the saved small training set
SavedRows ==
  LET C == train.train_set.shape[2]
  IN  [r \in 1..train.train_set.shape[1] |-> RowOf(train.train_set.data, r, C)]

\* C24: with full_array=False and at least S eligible non-sargassum pixels
\* for S sargassum pixels, the call saves 2*S rows: S of class 1 and S of
\* class 0, the class-0 rows being the randomly selected pixels, no row of
\* class 2 and no pixel in two rows.
C24_BalancedSmallSet ==
  (pc # "generate" /\ ~train.full_array /\ NumClass(0) >= NumClass(1)) =>
     /\ pc # "failed"
     /\ Len(SavedRows) = 2 * NumClass(1)
     /\ Cardinality({r \in DOMAIN SavedRows : SavedRows[r][12] = 1}) = NumClass(1)
     /\ Cardinality({r \in DOMAIN SavedRows : SavedRows[r][12] = 0}) = NumClass(1)
     /\ {<<SavedRows[r][1], SavedRows[r][2]>> : r \in {q \in DOMAIN SavedRows : SavedRows[q][12] = 0}}
          = Range(train.nonsarg_coords)
     /\ \A r \in DOMAIN SavedRows : SavedRows[r][12] # 2
     /\ \A q, r \in DOMAIN SavedRows :
          (SavedRows[q][1] = SavedRows[r][1] /\ SavedRows[q][2] = SavedRows[r][2]) => q = r

\* The pixel, as a position of the flattened tile, that row r of the saved
\* training set was made from
PixelOfRow(r) ==
  IF train.full_array THEN r
  ELSE LET C == train.train_set.shape[2]
           row == RowOf(train.train_set.data, r, C)
       IN  row[1] * train.AFAI_mask.shape[2] + row[2] + 1

\* The number of pixels saved
SavedPixels ==
  IF train.full_array THEN Size(train.AFAI_mask.shape) ELSE train.train_set.shape[1]

====
